---- MODULE Spec2Model ----
(***************************************************************************)
(* arr-sheets-downloader: one pass over a spreadsheet column of TMDb URLs,  *)
(* reconciling every row against Radarr (movies) and Sonarr (series) and   *)
(* writing a (status, release date) pair per row back to the sheet.        *)
(*                                                                         *)
(* Strings the program slices (URLs, dates) are sequences.  A URL is a     *)
(* sequence of tokens: the host, the two detail-path separators, digits,   *)
(* the hyphen, the slash and a letter; a date is a sequence of characters. *)
(* Python's None is the one-element sequence NoneVal.                      *)
(***************************************************************************)
EXTENDS Integers, Sequences, FiniteSets, TLC

\* ------------------------------------------------------------------ bounds
MaxUrlLen == 4      \* longest URL (in tokens) given to the extractor alone
MaxRows == 2        \* longest sheet column
MaxRuns == 2        \* runs of main() over the same sheet
PctDen == 10        \* completion percentages are multiples of 1/PctDen

\* --------------------------------------------------------- program values
DateLen == 10
HttpOk == 200
HttpCreated == 201

NoneVal == <<"None">>
EmptyStr == <<>>
Host == "themoviedb.org"
MovieSep == <<"/movie/">>
TvSep == <<"/tv/">>
Hyphen == <<"-">>
MovieSegmentLoose == MovieSep
MovieSegment == <<Host, "/movie/">>
TvSegment == <<Host, "/tv/">>

Digits == {"0", "1", "2", "3", "4", "5", "6", "7", "8", "9"}
DigitVal == [c \in Digits |->
               CASE c = "0" -> 0 [] c = "1" -> 1 [] c = "2" -> 2 [] c = "3" -> 3
                 [] c = "4" -> 4 [] c = "5" -> 5 [] c = "6" -> 6 [] c = "7" -> 7
                 [] c = "8" -> 8 [] c = "9" -> 9]

Min(a, b) == IF a < b THEN a ELSE b

\* Python truthiness of an optional string: None and "" are falsy.
Falsy(x) == x = NoneVal \/ x = EmptyStr

\* ------------------------------------------------------- string operators
MatchAt(s, p, i) ==
    /\ i + Len(p) - 1 <= Len(s)
    /\ \A k \in 1..Len(p) : s[i + k - 1] = p[k]

\* p in s
Contains(s, p) == \E i \in 1..Len(s) : MatchAt(s, p, i)

FirstIndex(s, p) ==
    CHOOSE i \in 1..Len(s) : MatchAt(s, p, i) /\ \A j \in 1..(i - 1) : ~MatchAt(s, p, j)

\* s.split(p)[0]
SplitHead(s, p) ==
    IF Contains(s, p) THEN SubSeq(s, 1, FirstIndex(s, p) - 1) ELSE s

\* s.split(p)[1], defined when p occurs in s
SplitSecond(s, p) ==
    SplitHead(SubSeq(s, FirstIndex(s, p) + Len(p), Len(s)), p)

\* int(s) succeeds (on the token alphabet) exactly for non-empty digit strings
IsDecimal(s) == Len(s) > 0 /\ \A k \in 1..Len(s) : s[k] \in Digits

RECURSIVE ToInt(_)
ToInt(s) ==
    IF Len(s) = 0 THEN 0
    ELSE 10 * ToInt(SubSeq(s, 1, Len(s) - 1)) + DigitVal[s[Len(s)]]

\* ------------------------------------------------------------ format_date
FormatDateWhole(d) == IF Falsy(d) THEN EmptyStr ELSE d
FormatDate(d) == IF Falsy(d) THEN EmptyStr ELSE SubSeq(d, 1, Min(DateLen, Len(d)))

\* ------------------------------------------------------------ get_tmdb_id
IsMovieUrl(url) == Contains(url, MovieSegment)
IsTvUrl(url) == Contains(url, TvSegment)

GetTmdbId(url) ==
    IF IsMovieUrl(url) THEN SplitHead(SplitSecond(url, MovieSep), Hyphen)
    ELSE IF IsTvUrl(url) THEN SplitHead(SplitSecond(url, TvSep), Hyphen)
    ELSE NoneVal

\* the branch of main() a URL with a truthy identifier is dispatched to
Dispatch(url) ==
    IF IsMovieUrl(url) THEN "movie" ELSE IF IsTvUrl(url) THEN "series" ELSE "other"

\* ---------------------------------------------------------- status labels
Downloaded == <<"Downloaded">>
Monitored == <<"Monitored">>
FailedToAdd == <<"Failed to Add">>
NotFound == <<"Not Found">>

\* f"{pct:.0f}" for pct = t / PctDen: nearest integer, ties to even
FormatPctTrunc(t) == t \div PctDen
FormatPct(t) ==
    LET q == t \div PctDen
        r == t % PctDen
    IN  IF 2 * r > PctDen THEN q + 1
        ELSE IF 2 * r < PctDen THEN q
        ELSE IF q % 2 = 0 THEN q ELSE q + 1

Partial(t) == <<"Partial (", FormatPct(t), "%)">>

\* ------------------------------------------------------ get_radarr_status
\* movies: the inventory answer (a list of entries); lookupCode, lookupJson: the
\* answer of the metadata lookup, read only when the inventory answer is empty.
\* Result: <<in_radarr, status, digital_release_date>>.
GetRadarrStatusNoCheck(movies, lookupCode, lookupJson) ==
    <<FALSE, NoneVal,
      IF lookupCode = HttpOk THEN FormatDate(lookupJson.digitalRelease) ELSE EmptyStr>>
GetRadarrStatus(movies, lookupCode, lookupJson) ==
    IF movies = <<>>
    THEN <<FALSE, NoneVal,
           IF lookupCode = HttpOk THEN FormatDate(lookupJson.digitalRelease) ELSE EmptyStr>>
    ELSE <<TRUE,
           IF movies[1].hasFile THEN Downloaded ELSE Monitored,
           FormatDate(movies[1].digitalRelease)>>

\* ------------------------------------------------------ get_sonarr_status
\* stats.get('percentOfEpisodes', 0) of series[0].get('statistics', {})
PctOf(entry) == IF entry.hasStats THEN entry.percentOfEpisodes ELSE 0

\* lookup: the external-id lookup answer; series: the inventory answer for the
\* looked-up tvdbId.  Result: <<in_sonarr, status, first_aired_date>>.
GetSonarrStatusAddOnMiss(lookup, series) ==
    IF lookup = <<>> THEN <<FALSE, NoneVal, EmptyStr>>
    ELSE IF series = <<>> THEN <<FALSE, NoneVal, FormatDate(lookup[1].firstAired)>>
    ELSE <<TRUE, Monitored, FormatDate(lookup[1].firstAired)>>
GetSonarrStatus(lookup, series) ==
    IF lookup = <<>> THEN <<TRUE, NotFound, EmptyStr>>
    ELSE LET first_aired == FormatDate(lookup[1].firstAired) IN
         IF series = <<>> THEN <<FALSE, NoneVal, first_aired>>
         ELSE LET pct == PctOf(series[1]) IN
              IF pct = 100 * PctDen THEN <<TRUE, Downloaded, first_aired>>
              ELSE IF pct > 0 THEN <<TRUE, Partial(pct), first_aired>>
              ELSE <<TRUE, Monitored, first_aired>>

\* ---------------------------------------------------------- add requests
\* add_to_radarr: int(tmdb_id) raises ValueError unless the id is decimal
RadarrAddRaises(tmdb_id) == ~IsDecimal(tmdb_id)
RadarrPayload(tmdb_id) == <<ToInt(tmdb_id)>>

\* add_to_sonarr posts only when its own lookup answers 200 with a match
SonarrAddPosts(code, json) == code = HttpOk /\ json # <<>>
SonarrPayloadFromTmdb(show_data) == <<show_data.title, show_data.tmdbId>>
SonarrPayload(show_data) == <<show_data.title, show_data.tvdbId>>

\* status main() assigns after an add attempt
AddedStatus(ok) == IF ok THEN Monitored ELSE FailedToAdd

\* rows.append([status, release_date])
AppendRowUnlessEmpty(rs, status, date) ==
    IF status = EmptyStr THEN rs ELSE Append(rs, <<status, date>>)
AppendRow(rs, status, date) == Append(rs, <<status, date>>)

\* ------------------------------------------------------------ environment
Tok == {Host, "/movie/", "/tv/", "1", "2", "-", "/", "a"}
AllUrls == UNION {[1..n -> Tok] : n \in 0..MaxUrlLen}

\* the URLs a sheet row may hold
SheetUrls ==
    { <<Host, "/movie/", "1", "-", "a">>,
      <<Host, "/movie/", "2", "/", "a">>,
      <<Host, "/tv/", "1", "-", "a">>,
      <<"a", "/movie/", "1">> }
SheetRowValues == {<<>>} \cup {<<u>> : u \in SheetUrls}
Sheets == UNION {[1..n -> SheetRowValues] : n \in 0..MaxRows}

IsoStamp == <<"2", "0", "2", "4", "-", "0", "3", "-", "1", "5",
              "T", "0", "0", ":", "0", "0", ":", "0", "0", "Z">>
Dates == {NoneVal, IsoStamp}
PctSamples == {0, 5, 456, 996, 100 * PctDen}
LookupCodes == {HttpOk, 404}
AddCodes == {HttpCreated, 400}

\* the series catalogue behind Sonarr's lookup: TMDb id n is TVDB id TvdbOf(n)
TvdbOf(n) == 100 + n
SeriesTitle(n) == <<"series", n>>

\* GET {RADARR_URL}/movie?tmdbId=...: the inventory entries for the id
RadarrInventory(inv, tmdb_id, hasFile, date) ==
    IF IsDecimal(tmdb_id) /\ ToInt(tmdb_id) \in inv
    THEN <<[hasFile |-> hasFile, digitalRelease |-> date]>>
    ELSE <<>>

\* GET {SONARR_URL}/series/lookup?term=tmdb:...: no result, or the catalogue entry
SonarrLookup(tmdb_id, found, date) ==
    IF found /\ IsDecimal(tmdb_id)
    THEN <<[title |-> SeriesTitle(ToInt(tmdb_id)), tvdbId |-> TvdbOf(ToInt(tmdb_id)),
            tmdbId |-> ToInt(tmdb_id), firstAired |-> date]>>
    ELSE <<>>

\* GET {SONARR_URL}/series?tvdbId=...
SonarrInventory(inv, tvdb_id, hasStats, pct) ==
    IF tvdb_id \in inv
    THEN <<[hasStats |-> hasStats, percentOfEpisodes |-> pct]>>
    ELSE <<>>

\* ------------------------------------------------------------------ state
VARIABLES
    sheetRows,  \* the sheet's URL column
    radarr,     \* TMDb ids in the movie inventory
    sonarr,     \* TVDB ids in the series inventory
    run,        \* number of runs of main() started
    pc,         \* "idle", "loop", "done", "crashed"
    links,      \* what get_google_sheets_data returned to this run
    idx,        \* position of the for loop (1-based)
    rows,       \* the output row list
    writeLog,   \* calls of update_sheet_statuses in this run
    reqs,       \* library requests sent in this run
    last,       \* what the latest loop iteration saw and sent
    addOK,      \* per title, the number of add requests answered 201
    url,        \* extractor alone: its argument
    ext         \* extractor alone: <<state, result, dispatch>>

vars == <<sheetRows, radarr, sonarr, run, pc, links, idx, rows, writeLog, reqs,
          last, addOK, url, ext>>
mainVars == <<sheetRows, radarr, sonarr, run, pc, links, idx, rows, writeLog, reqs,
              last, addOK>>

NoObs ==
    [row |-> 0, kind |-> "none", tmdb |-> NoneVal, inv |-> "none",
     hasFile |-> FALSE, rawDate |-> NoneVal, lookup |-> "none", lookups |-> 0,
     hasStats |-> FALSE, pct |-> 0, relookup |-> "none",
     addReqs |-> 0, addCode |-> 0, payload |-> <<>>, tracked |-> FALSE, sent |-> 0]

Bump(f, k) ==
    [x \in DOMAIN f \cup {k} |->
        IF x = k THEN (IF k \in DOMAIN f THEN f[k] ELSE 0) + 1 ELSE f[x]]

MainIdle ==
    /\ run = 0 /\ pc = "idle" /\ links = <<>> /\ idx = 1 /\ rows = <<>>
    /\ writeLog = <<>> /\ reqs = 0 /\ last = NoObs
    /\ addOK = [x \in {} |-> 0]

Init ==
    /\ sheetRows \in Sheets
    /\ radarr \in SUBSET {1}
    /\ sonarr \in SUBSET {TvdbOf(1)}
    /\ MainIdle
    /\ url = <<>> /\ ext = <<"idle", NoneVal, "other">>

\* ------------------------------------------------------------------- main
\* main() starts: the sheet is read (an HttpError yields no rows)
StartRun ==
    /\ pc \in {"idle", "done", "crashed"}
    /\ run < MaxRuns
    /\ run' = run + 1
    /\ \E readOk \in BOOLEAN : links' = IF readOk THEN sheetRows ELSE <<>>
    /\ pc' = "loop" /\ idx' = 1 /\ rows' = <<>> /\ writeLog' = <<>> /\ reqs' = 0
    /\ last' = NoObs
    /\ UNCHANGED <<sheetRows, radarr, sonarr, addOK, url, ext>>

\* the for loop has consumed every link
LoopDoneEarly == idx > Len(links) \/ idx > 1
LoopDone == idx > Len(links)

InLoop == pc = "loop" /\ ~LoopDone
link == links[idx]
tmdb_id == GetTmdbId(link[1])

Advance(status, date, obs) ==
    /\ rows' = AppendRow(rows, status, date)
    /\ idx' = idx + 1
    /\ last' = [obs EXCEPT !.row = idx]
    /\ reqs' = reqs + obs.sent
    /\ UNCHANGED <<sheetRows, run, pc, links, writeLog, url, ext>>

\* if not link: rows.append(["", ""])
BlankRow ==
    /\ InLoop /\ link = <<>>
    /\ Advance(EmptyStr, EmptyStr, [NoObs EXCEPT !.kind = "blank"])
    /\ UNCHANGED <<radarr, sonarr, addOK>>

\* if not tmdb_id: rows.append(["", ""])
NoIdRow ==
    /\ InLoop /\ link # <<>> /\ Falsy(tmdb_id)
    /\ Advance(EmptyStr, EmptyStr, [NoObs EXCEPT !.kind = "noid", !.tmdb = tmdb_id])
    /\ UNCHANGED <<radarr, sonarr, addOK>>

IsMovieRow == InLoop /\ link # <<>> /\ ~Falsy(tmdb_id) /\ IsMovieUrl(link[1])
IsTvRow ==
    InLoop /\ link # <<>> /\ ~Falsy(tmdb_id) /\ ~IsMovieUrl(link[1]) /\ IsTvUrl(link[1])

MovieObs(id, movies, hasFile, date) ==
    [NoObs EXCEPT !.kind = "movie", !.tmdb = id,
                  !.inv = IF movies = <<>> THEN "empty" ELSE "entry",
                  !.hasFile = hasFile, !.rawDate = date,
                  !.lookups = IF movies = <<>> THEN 1 ELSE 0,
                  !.sent = IF movies = <<>> THEN 2 ELSE 1]

\* the movie is in Radarr: report its status
MovieTracked ==
    /\ IsMovieRow
    /\ \E id \in {tmdb_id}, hasFile \in BOOLEAN, date \in Dates :
         LET movies == RadarrInventory(radarr, id, hasFile, date)
             st == GetRadarrStatus(movies, HttpOk, [digitalRelease |-> date])
         IN  /\ st[1]
             /\ Advance(st[2], st[3], MovieObs(id, movies, hasFile, date))
    /\ UNCHANGED <<radarr, sonarr, addOK>>

\* the movie is not in Radarr: add_to_radarr posts it
MovieAdd ==
    /\ IsMovieRow
    /\ \E id \in {tmdb_id}, date \in Dates, code \in LookupCodes, addCode \in AddCodes :
         LET hasFile == FALSE
             movies == RadarrInventory(radarr, id, hasFile, date)
             st == GetRadarrStatus(movies, code, [digitalRelease |-> date])
             ok == addCode = HttpCreated
             payload == RadarrPayload(id)
             obs == MovieObs(id, movies, hasFile, date)
         IN  /\ ~st[1]
             /\ ~RadarrAddRaises(id)
             /\ radarr' = IF ok THEN radarr \cup {payload[1]} ELSE radarr
             /\ addOK' = IF ok THEN Bump(addOK, <<"movie", payload[1]>>) ELSE addOK
             /\ code = HttpOk \/ date = NoneVal    \* a failed lookup carries no date
             /\ Advance(AddedStatus(ok), st[3],
                        [obs EXCEPT !.lookup = IF code = HttpOk THEN "hit" ELSE "miss",
                                    !.addReqs = 1, !.addCode = addCode,
                                    !.payload = payload,
                                    !.tracked = payload[1] \in radarr,
                                    !.sent = obs.sent + 1])
    /\ UNCHANGED sonarr

\* the movie is not in Radarr and int(tmdb_id) raises: main() dies in this row
MovieAddRaises ==
    /\ IsMovieRow
    /\ \E id \in {tmdb_id}, date \in Dates, code \in LookupCodes :
         LET hasFile == FALSE
             movies == RadarrInventory(radarr, id, hasFile, date)
             st == GetRadarrStatus(movies, code, [digitalRelease |-> date])
             obs == MovieObs(id, movies, hasFile, date)
         IN  /\ ~st[1]
             /\ RadarrAddRaises(id)
             /\ code = HttpOk \/ date = NoneVal
             /\ pc' = "crashed"
             /\ last' = [obs EXCEPT !.row = idx,
                                    !.lookup = IF code = HttpOk THEN "hit" ELSE "miss"]
             /\ reqs' = reqs + obs.sent
    /\ UNCHANGED <<sheetRows, radarr, sonarr, run, links, idx, rows, writeLog, addOK,
                   url, ext>>

SeriesObs(id, lookup, series, hasStats, pct, date) ==
    [NoObs EXCEPT !.kind = "series", !.tmdb = id,
                  !.lookup = IF lookup = <<>> THEN "miss" ELSE "hit",
                  !.lookups = 1,
                  !.inv = IF lookup = <<>> THEN "none"
                          ELSE IF series = <<>> THEN "empty" ELSE "entry",
                  !.hasStats = hasStats, !.pct = pct, !.rawDate = date,
                  !.sent = IF lookup = <<>> THEN 1 ELSE 2]

SeriesAnswer(lookup, hasStats, pct) ==
    IF lookup = <<>> THEN <<>>
    ELSE SonarrInventory(sonarr, lookup[1].tvdbId, hasStats, pct)

\* the lookup found nothing, or the series is in Sonarr: report its status
SeriesTracked ==
    /\ IsTvRow
    /\ \E id \in {tmdb_id}, found \in BOOLEAN, date \in Dates, hasStats \in BOOLEAN, pct \in PctSamples :
         LET lookup == SonarrLookup(id, found, date)
             series == SeriesAnswer(lookup, hasStats, pct)
             st == GetSonarrStatus(lookup, series)
         IN  /\ hasStats \/ pct = 0                        \* no statistics, no percentage
             /\ found \/ date = NoneVal                    \* an empty lookup carries no date
             /\ series # <<>> \/ (~hasStats /\ pct = 0)    \* nor an empty inventory answer
             /\ st[1]
             /\ Advance(st[2], st[3], SeriesObs(id, lookup, series, hasStats, pct, date))
    /\ UNCHANGED <<radarr, sonarr, addOK>>

\* the series is not in Sonarr: add_to_sonarr looks it up again and posts it
SeriesAdd ==
    /\ IsTvRow
    /\ \E id \in {tmdb_id}, found \in BOOLEAN, date \in Dates, code2 \in {HttpOk, 503},
          found2 \in BOOLEAN, addCode \in AddCodes :
         LET lookup == SonarrLookup(id, found, date)
             series == SeriesAnswer(lookup, FALSE, 0)
             st == GetSonarrStatus(lookup, series)
             json2 == SonarrLookup(id, found2, date)
             obs == SeriesObs(id, lookup, series, FALSE, 0, date)
         IN  /\ ~st[1]
             /\ SonarrAddPosts(code2, json2)
             /\ LET payload == SonarrPayload(json2[1])
                    ok == addCode = HttpCreated
                IN  /\ sonarr' = IF ok THEN sonarr \cup {payload[2]} ELSE sonarr
                    /\ addOK' = IF ok THEN Bump(addOK, <<"series", payload[2]>>) ELSE addOK
                    /\ Advance(AddedStatus(ok), st[3],
                               [obs EXCEPT !.relookup = "hit", !.addReqs = 1,
                                           !.addCode = addCode, !.payload = payload,
                                           !.tracked = payload[2] \in sonarr,
                                           !.sent = obs.sent + 2])
    /\ UNCHANGED radarr

\* the series is not in Sonarr and add_to_sonarr's own lookup fails: no post
SeriesAddNoLookup ==
    /\ IsTvRow
    /\ \E id \in {tmdb_id}, found \in BOOLEAN, date \in Dates, code2 \in {HttpOk, 503}, found2 \in BOOLEAN :
         LET lookup == SonarrLookup(id, found, date)
             series == SeriesAnswer(lookup, FALSE, 0)
             st == GetSonarrStatus(lookup, series)
             json2 == SonarrLookup(id, found2, date)
             obs == SeriesObs(id, lookup, series, FALSE, 0, date)
         IN  /\ ~st[1]
             /\ ~SonarrAddPosts(code2, json2)
             /\ Advance(AddedStatus(FALSE), st[3],
                        [obs EXCEPT !.relookup = "miss", !.sent = obs.sent + 1])
    /\ UNCHANGED <<radarr, sonarr, addOK>>

\* if rows: update_sheet_statuses(sheets_service, rows); an HttpError is caught
WriteBack ==
    /\ pc = "loop" /\ LoopDone /\ rows # <<>>
    /\ writeLog' = Append(writeLog, [values |-> rows, at |-> idx, sent |-> reqs])
    /\ pc' = "done"
    /\ UNCHANGED <<sheetRows, radarr, sonarr, run, links, idx, rows, reqs, last, addOK,
                   url, ext>>

\* no rows: main() returns without writing
NoWrite ==
    /\ pc = "loop" /\ LoopDone /\ rows = <<>>
    /\ pc' = "done"
    /\ UNCHANGED <<sheetRows, radarr, sonarr, run, links, idx, rows, writeLog, reqs, last,
                   addOK, url, ext>>

Next ==
    \/ StartRun
    \/ BlankRow
    \/ NoIdRow
    \/ MovieTracked
    \/ MovieAdd
    \/ MovieAddRaises
    \/ SeriesTracked
    \/ SeriesAdd
    \/ SeriesAddNoLookup
    \/ WriteBack
    \/ NoWrite

Spec == Init /\ [][Next]_vars

\* ------------------------------------------------- the extractor on its own
ExtractInit ==
    /\ sheetRows = <<>> /\ radarr = {} /\ sonarr = {}
    /\ MainIdle
    /\ url \in AllUrls /\ ext = <<"idle", NoneVal, "other">>

\* tmdb_id = get_tmdb_id(url), then main()'s dispatch on the url
Extract ==
    /\ ext[1] = "idle"
    /\ ext' = <<"done", GetTmdbId(url),
                IF Falsy(GetTmdbId(url)) THEN "skip" ELSE Dispatch(url)>>
    /\ UNCHANGED <<mainVars, url>>

ExtractNext == Extract

ExtractSpec == ExtractInit /\ [][ExtractNext]_vars

\* ============================================================ properties
PlainDate == <<"2", "0", "2", "4", "-", "0", "3", "-", "1", "5">>
NoRow == <<NoneVal, NoneVal>>

\* the output row of the latest loop iteration (NoRow if it appended none)
LastOut == IF last.row \in 1..Len(rows) THEN rows[last.row] ELSE NoRow

\* the input row of the latest loop iteration
LastIn == IF last.row \in 1..Len(links) THEN links[last.row] ELSE <<>>

HasMovieSegment(u) == Contains(u, <<"themoviedb.org", "/movie/">>)
HasTvSegment(u) == Contains(u, <<"themoviedb.org", "/tv/">>)

\* the first 10 characters of a date the library reported, "" for none
Truncated(d) ==
    IF d = NoneVal \/ d = <<>> THEN <<>>
    ELSE [i \in 1..(IF Len(d) < 10 THEN Len(d) ELSE 10) |-> d[i]]

MovieStatuses == {Downloaded, Monitored, FailedToAdd}
IsPartial(st) == Len(st) = 3 /\ st[1] = "Partial (" /\ st[3] = "%)"
IsSeriesStatus(st) ==
    st \in {NotFound, Downloaded, Monitored, FailedToAdd} \/ IsPartial(st)

\* what an output row must look like for its input row
RowFits(in, out) ==
    IF in = <<>> \/ (~HasMovieSegment(in[1]) /\ ~HasTvSegment(in[1]))
    THEN out = <<EmptyStr, EmptyStr>>
    ELSE IF HasMovieSegment(in[1]) THEN out[1] \in MovieStatuses
    ELSE IsSeriesStatus(out[1])

\* C1: the output list holds one row per consumed input row, row i fitting input
\* row i, and every list handed to the write-back is as long as the input.
Thm_C1 ==
    /\ pc \in {"loop", "done", "crashed"} => Len(rows) = idx - 1
    /\ \A i \in 1..Len(rows) : RowFits(links[i], rows[i])
    /\ \A k \in 1..Len(writeLog) :
         /\ Len(writeLog[k].values) = Len(links)
         /\ \A i \in 1..Len(links) : RowFits(links[i], writeLog[k].values[i])

Wit_C1 ==
    /\ writeLog # <<>> /\ Len(links) >= 2
    /\ Len(writeLog[1].values) = Len(links)
    /\ links[1] = <<>> /\ rows[1] = <<EmptyStr, EmptyStr>>
    /\ links[2] # <<>> /\ rows[2][1] = FailedToAdd

\* C2: an add request is sent only after the row's inventory query came back
\* empty, never for a title the inventory holds, and no title is added
\* successfully more than once over all the runs.
Thm_C2 ==
    /\ last.addReqs > 0 => last.inv = "empty" /\ ~last.tracked
    /\ last.inv = "entry" => last.addReqs = 0
    /\ \A k \in DOMAIN addOK : addOK[k] <= 1

Wit_C2 ==
    /\ run >= 2
    /\ <<"movie", 1>> \in DOMAIN addOK /\ <<"series", TvdbOf(1)>> \in DOMAIN addOK
    /\ last.kind = "movie" /\ last.inv = "entry" /\ last.addReqs = 0

\* C3: a movie absent from the inventory gets exactly one add request, status
\* "Monitored" on 201 and "Failed to Add" otherwise, and the lookup's truncated
\* digital-release date ("" if the lookup has none) as the row's date.
Cex_C3 ==
    (last.kind = "movie" /\ last.inv = "empty") =>
        /\ last.addReqs = 1
        /\ LastOut[1] = (IF last.addCode = 201 THEN Monitored ELSE FailedToAdd)
        /\ LastOut[2] = (IF last.lookup = "hit" THEN Truncated(last.rawDate) ELSE <<>>)

\* C4: a series lookup with no result gives ("Not Found", "") and nothing else is
\* sent to the series library for that row.
Thm_C4 ==
    (last.kind = "series" /\ last.lookup = "miss") =>
        /\ LastOut = <<NotFound, EmptyStr>>
        /\ last.addReqs = 0 /\ last.relookup = "none" /\ last.sent = 1

Wit_C4 ==
    /\ last.kind = "series" /\ last.lookup = "miss"
    /\ LastOut = <<NotFound, EmptyStr>>

\* C5 as stated: lookup match and empty inventory answer always lead to one add
\* request built from the lookup result, the status following the add's outcome
\* and the date being the lookup's first-aired date.
Cex_C5 ==
    (last.kind = "series" /\ last.lookup = "hit" /\ last.inv = "empty") =>
        /\ last.addReqs = 1
        /\ last.payload = <<SeriesTitle(ToInt(last.tmdb)), TvdbOf(ToInt(last.tmdb))>>
        /\ LastOut[1] = (IF last.addCode = 201 THEN Monitored ELSE FailedToAdd)
        /\ LastOut[2] = Truncated(last.rawDate)

\* C5 amended: the add request is sent exactly when add_to_sonarr's own repeat of
\* the lookup answers 200 with a match, and is built from that answer; without it
\* nothing is posted and the status is "Failed to Add".  The date is the first
\* lookup's first-aired date whatever happens.
Thm_C5 ==
    (last.kind = "series" /\ last.lookup = "hit" /\ last.inv = "empty") =>
        /\ last.relookup \in {"hit", "miss"}
        /\ last.relookup = "hit" =>
             /\ last.addReqs = 1
             /\ last.payload = <<SeriesTitle(ToInt(last.tmdb)), TvdbOf(ToInt(last.tmdb))>>
             /\ LastOut[1] = (IF last.addCode = 201 THEN Monitored ELSE FailedToAdd)
        /\ last.relookup = "miss" =>
             /\ last.addReqs = 0 /\ last.payload = <<>>
             /\ LastOut[1] = FailedToAdd
        /\ LastOut[2] = Truncated(last.rawDate)

Wit_C5 ==
    /\ last.kind = "series" /\ last.lookup = "hit" /\ last.inv = "empty"
    /\ last.relookup = "hit" /\ last.addReqs = 1 /\ last.addCode = 201
    /\ LastOut = <<Monitored, PlainDate>>

\* C6: a series in the inventory gets "Downloaded" at 100%, "Partial (N%)" with N
\* a nearest whole percent strictly between, "Monitored" at 0% or without
\* statistics, and no add request.
Thm_C6 ==
    (last.kind = "series" /\ last.inv = "entry") =>
        LET p == IF last.hasStats THEN last.pct ELSE 0
            st == LastOut[1]
        IN  /\ last.addReqs = 0 /\ last.relookup = "none"
            /\ p = 100 * PctDen => st = Downloaded
            /\ p = 0 => st = Monitored
            /\ (0 < p /\ p < 100 * PctDen) =>
                 /\ IsPartial(st)
                 /\ 2 * st[2] * PctDen - 2 * p <= PctDen
                 /\ 2 * p - 2 * st[2] * PctDen <= PctDen

Wit_C6 ==
    /\ last.kind = "series" /\ last.inv = "entry" /\ last.hasStats
    /\ last.pct = 456 /\ PctDen = 10
    /\ LastOut[1] = <<"Partial (", 46, "%)">>

\* C7: a movie in the inventory gets "Downloaded" or "Monitored" by the first
\* entry's hasFile, that entry's truncated digital-release date, and neither a
\* metadata lookup nor an add request.
Thm_C7 ==
    (last.kind = "movie" /\ last.inv = "entry") =>
        /\ LastOut[1] = (IF last.hasFile THEN Downloaded ELSE Monitored)
        /\ LastOut[2] = Truncated(last.rawDate)
        /\ last.lookups = 0 /\ last.addReqs = 0 /\ last.sent = 1

Wit_C7 ==
    /\ last.kind = "movie" /\ last.inv = "entry" /\ last.hasFile
    /\ last.rawDate = IsoStamp
    /\ LastOut = <<Downloaded, PlainDate>>

\* C8: a run writes back at most once, with the loop over, the whole output list
\* as payload and every library request of the run already sent.
Thm_C8 ==
    /\ Len(writeLog) <= 1
    /\ pc = "loop" => writeLog = <<>>
    /\ \A k \in 1..Len(writeLog) :
         /\ pc = "done"
         /\ writeLog[k].at = Len(links) + 1
         /\ writeLog[k].values = rows
         /\ writeLog[k].sent = reqs

Wit_C8 ==
    /\ Len(writeLog) = 1 /\ pc = "done"
    /\ Len(writeLog[1].values) = 2 /\ reqs >= 4

\* C9: a blank row and a URL with neither detail-path segment give ("", "") and
\* no request to either library.
Thm_C9 ==
    (last.row >= 1 /\
     (LastIn = <<>> \/ (~HasMovieSegment(LastIn[1]) /\ ~HasTvSegment(LastIn[1])))) =>
        /\ LastOut = <<EmptyStr, EmptyStr>>
        /\ last.sent = 0 /\ last.addReqs = 0

Wit_C9 ==
    /\ Len(rows) = 2 /\ last.row = 2
    /\ links[1] = <<>> /\ links[2] = <<<<"a", "/movie/", "1">>>>
    /\ rows = <<<<EmptyStr, EmptyStr>>, <<EmptyStr, EmptyStr>>>>
    /\ reqs = 0

\* the digits that follow the first occurrence of a segment, up to the first
\* token that is no digit
RECURSIVE LeadingDigits(_)
LeadingDigits(s) ==
    IF s = <<>> \/ s[1] \notin Digits THEN <<>>
    ELSE <<s[1]>> \o LeadingDigits(Tail(s))

TokenAfter(u, seg) ==
    LeadingDigits(SubSeq(u, FirstIndex(u, seg) + Len(seg), Len(u)))

\* C10: the extractor returns the numeric token after the movie (else series)
\* segment, or no identifier without a segment, and every identifier handed to a
\* reconciler is a decimal string.
Cex_C10 ==
    ext[1] = "done" =>
        /\ HasMovieSegment(url) =>
             ext[2] = TokenAfter(url, <<"themoviedb.org", "/movie/">>)
        /\ (~HasMovieSegment(url) /\ HasTvSegment(url)) =>
             ext[2] = TokenAfter(url, <<"themoviedb.org", "/tv/">>)
        /\ (~HasMovieSegment(url) /\ ~HasTvSegment(url)) => ext[2] = NoneVal
        /\ ext[3] = "movie" => HasMovieSegment(url)
        /\ ext[3] = "series" => HasTvSegment(url)
        /\ ext[3] # "skip" => IsDecimal(ext[2])
====
